---- MODULE Spec2Model ----
(***************************************************************************)
(* StableBinaryHeap: a std::collections::BinaryHeap of HeapItem<T>, where  *)
(* a HeapItem carries the value and the insertion counter, and the item    *)
(* order is the value order with the reversed counter order as tie-break.  *)
(*                                                                         *)
(* The element type T is the test suite's UniqueItem: a payload `item`     *)
(* and a priority `val`, ordered and compared by `val` alone, so distinct  *)
(* values can compare equal.  The caller labels the values it pushes with  *)
(* the number of values it has pushed so far (as test_stability_same       *)
(* does), which makes the push order readable from the values.             *)
(*                                                                         *)
(* Positions in the heap's vector are 0-based as in the source; the        *)
(* element at position p is data[p + 1].                                   *)
(*                                                                         *)
(* Spec is the heap under the calls of its API, the peek_mut handle used   *)
(* to read and write the value.  SpecHandle adds writes of the entry's     *)
(* counter through that handle.  SpecRun is a heap that is never cleared   *)
(* in a run of pushes and pops that reaches the end of usize, which the    *)
(* model makes UsizeBits wide.  SpecCmp is the comparator on its own.      *)
(***************************************************************************)
EXTENDS Integers, Sequences, FiniteSets, TLC

\* Bounds of the model.
MaxPushes == 4      \* values pushed into one heap since its construction
MaxVal == 1         \* priorities are 0..MaxVal
MaxExtend == 3      \* length of the sequences given to extend
MaxCmpCounter == 2  \* counters of the entries given to the comparator alone
UsizeBits == 3      \* width given to usize, so that a run of pushes can reach its end

Vals == 0..MaxVal

VARIABLES
    heap,      \* StableBinaryHeap.heap: the BinaryHeap's vector of HeapItem
    counter,   \* StableBinaryHeap.counter
    alive,     \* the heap value has not been moved out by a consuming method
    sorted,    \* IntoIterSorted.inner, once into_iter_sorted has taken the heap
    out,       \* what the consuming method or iterator has yielded so far
    last,      \* the last call on the heap: method, argument, result, state before
    calls,     \* the kind of call sequence the heap has had since its construction
    nPush,     \* values pushed since construction (the next payload label)
    nPop,      \* successful pops since construction
    twin,      \* a newly constructed heap driven alongside since the last clear
    cmpIn,     \* the two entries given to the comparator
    cmpOut     \* the comparator's result for them

vars == <<heap, counter, alive, sorted, out, last, calls, nPush, nPop, twin, cmpIn, cmpOut>>

----------------------------------------------------------------------------
\* std::cmp::Ordering and the orders of the element type.

Less == "Less"
Equal == "Equal"
Greater == "Greater"

\* Ordering::reverse
reverse(o) == IF o = Less THEN Greater ELSE IF o = Greater THEN Less ELSE Equal

\* usize: 0 .. 2^UsizeBits - 1
UsizeModulus == 2 ^ UsizeBits
UsizeMax == UsizeModulus - 1

\* usize addition where overflow is not checked (it wraps)
usize_add(a, b) == (a + b) % UsizeModulus

\* usize::cmp
usize_cmp(a, b) == IF a < b THEN Less ELSE IF a > b THEN Greater ELSE Equal

\* UniqueItem::new
UniqueItem(item, val) == [item |-> item, val |-> val]

\* UniqueItem::cmp: by val alone
user_cmp(a, b) == usize_cmp(a.val, b.val)

\* UniqueItem::eq: by val alone
user_eq(a, b) == a.val = b.val

----------------------------------------------------------------------------
\* item.rs

\* HeapItem::new
HeapItem(inner, pos) == [inner |-> inner, counter |-> pos]

\* HeapItem::into_inner
into_inner(i) == i.inner

\* HeapItem::eq
item_eq(a, b) == a.counter = b.counter /\ user_eq(a.inner, b.inner)

\* Mutant of partial_cmp: the value order alone, no tie-break
partial_cmp_value_only(a, b) == user_cmp(a.inner, b.inner)

\* Mutant of partial_cmp: the tie-break not reversed
partial_cmp_no_reverse(a, b) ==
    LET cmp == user_cmp(a.inner, b.inner)
    IN  IF cmp = Equal
        THEN usize_cmp(a.counter, b.counter)
        ELSE cmp

\* HeapItem::partial_cmp (always Some)
partial_cmp(a, b) ==
    LET cmp == user_cmp(a.inner, b.inner)
    IN  IF cmp = Equal
        THEN reverse(usize_cmp(a.counter, b.counter))
        ELSE cmp

\* HeapItem::cmp
item_cmp(a, b) == partial_cmp(a, b)

\* a <= b as PartialOrd derives it from partial_cmp
item_le(a, b) == partial_cmp(a, b) \in {Less, Equal}

\* a >= b and a < b, derived likewise
item_ge(a, b) == partial_cmp(a, b) \in {Greater, Equal}
item_lt(a, b) == partial_cmp(a, b) = Less

----------------------------------------------------------------------------
\* std::collections::BinaryHeap<HeapItem<T>> over its vector `data`.

Swap(data, p, q) == [data EXCEPT ![p + 1] = data[q + 1], ![q + 1] = data[p + 1]]

\* BinaryHeap::sift_up(start, pos): move the element at pos up while it is
\* greater than its parent.
RECURSIVE sift_up(_, _, _)
sift_up(data, start, pos) ==
    IF pos > start
    THEN LET parent == (pos - 1) \div 2
         IN  IF item_le(data[pos + 1], data[parent + 1])
             THEN data
             ELSE sift_up(Swap(data, pos, parent), start, parent)
    ELSE data

\* The loop of BinaryHeap::sift_down_to_bottom: move the hole at pos down to a
\* leaf, always towards the greater child.  Yields the vector and the leaf.
RECURSIVE sink(_, _)
sink(data, pos) ==
    LET end == Len(data)
        child == 2 * pos + 1
    IN  IF end >= 2 /\ child <= end - 2
        THEN LET c == IF item_le(data[child + 1], data[child + 2])
                      THEN child + 1 ELSE child
             IN  sink(Swap(data, pos, c), c)
        ELSE IF child = end - 1
             THEN <<Swap(data, pos, child), child>>
             ELSE <<data, pos>>

\* BinaryHeap::sift_down_to_bottom(pos)
sift_down_to_bottom(data, pos) ==
    LET r == sink(data, pos)
    IN  sift_up(r[1], pos, r[2])

\* BinaryHeap::sift_down_range(pos, end): move the element at pos down while a
\* child is greater than it.
RECURSIVE sift_down_range(_, _, _)
sift_down_range(data, pos, end) ==
    LET child == 2 * pos + 1
    IN  IF end >= 2 /\ child <= end - 2
        THEN LET c == IF item_le(data[child + 1], data[child + 2])
                      THEN child + 1 ELSE child
             IN  IF item_ge(data[pos + 1], data[c + 1])
                 THEN data
                 ELSE sift_down_range(Swap(data, pos, c), c, end)
        ELSE IF child = end - 1 /\ item_lt(data[pos + 1], data[child + 1])
             THEN Swap(data, pos, child)
             ELSE data

\* BinaryHeap::sift_down(pos)
sift_down(data, pos) == sift_down_range(data, pos, Len(data))

\* What a caller does with the PeekMut handle before it is released: only
\* read through it, write the value's priority, or write the entry's counter
\* (HeapItem::counter_mut, or the public field).
Write(top, w) ==
    IF w.kind = "val" THEN [top EXCEPT !.inner.val = w.k]
    ELSE IF w.kind = "counter" THEN [top EXCEPT !.counter = w.k]
    ELSE top

\* BinaryHeap::peek_mut, the caller's use of the handle, and PeekMut::drop,
\* which sifts the top down if the handle was written through
bh_peek_mut(data, w) ==
    IF data = <<>> THEN data
    ELSE LET written == [data EXCEPT ![1] = Write(data[1], w)]
         IN  IF w.kind = "read" THEN written ELSE sift_down(written, 0)

\* BinaryHeap::push
bh_push(data, item) == sift_up(Append(data, item), 0, Len(data))

None == [some |-> FALSE]
Some(x) == [some |-> TRUE, val |-> x]

\* BinaryHeap::pop: the vector afterwards and the Option returned
bh_pop(data) ==
    IF data = <<>>
    THEN [data |-> data, ret |-> None]
    ELSE LET item == data[Len(data)]
             rest == SubSeq(data, 1, Len(data) - 1)
         IN  IF rest = <<>>
             THEN [data |-> rest, ret |-> Some(item)]
             ELSE [data |-> sift_down_to_bottom([rest EXCEPT ![1] = item], 0),
                   ret |-> Some(rest[1])]

\* BinaryHeap::peek
bh_peek(data) == IF data = <<>> THEN None ELSE Some(data[1])

\* Vec::drain(..) as BinaryHeap::drain uses it: the elements in vector order
bh_drain(data) == data

\* BinaryHeap::into_vec
bh_into_vec(data) == data

----------------------------------------------------------------------------
\* lib.rs: StableBinaryHeap.  A heap value is [heap |-> vector, counter |-> n].

\* StableBinaryHeap::new
new == [heap |-> <<>>, counter |-> 0]

\* StableBinaryHeap::with_capacity; the capacity of the vector is not part of
\* the model
with_capacity(capacity) == [heap |-> <<>>, counter |-> 0]

\* StableBinaryHeap::default
default == new

\* Mutant of new_item: the number of held entries taken as the counter
new_item_by_len(S, inner) == HeapItem(inner, Len(S.heap))

\* StableBinaryHeap::new_item
new_item(S, inner) == HeapItem(inner, S.counter)

\* Mutant of push: the counter is not increased after new_item
push_no_increment(S, item) ==
    LET heap_item == new_item(S, item)
    IN  [heap |-> bh_push(S.heap, heap_item), counter |-> S.counter]

\* StableBinaryHeap::push
push(S, item) ==
    LET heap_item == new_item(S, item)
    IN  [heap |-> bh_push(S.heap, heap_item), counter |-> usize_add(S.counter, 1)]

\* usize::max
usize_max(a, b) == IF b > a THEN b ELSE a

\* Mutant of push_raw: the counter is set to the entry's
push_raw_sets_counter(S, item) ==
    [heap |-> bh_push(S.heap, item), counter |-> item.counter]

\* StableBinaryHeap::push_raw
push_raw(S, item) ==
    [heap |-> bh_push(S.heap, item), counter |-> usize_max(S.counter, item.counter)]

\* StableBinaryHeap::len
len(S) == Len(S.heap)

\* StableBinaryHeap::is_empty
is_empty(S) == S.heap = <<>>

\* Mutant of clear: the counter is not reset
clear_keeps_counter(S) == [heap |-> <<>>, counter |-> S.counter]

\* StableBinaryHeap::clear
clear(S) == [heap |-> <<>>, counter |-> 0]

\* Option::map(|i| i.into_inner())
map_inner(o) == IF o.some THEN Some(into_inner(o.val)) ELSE None

\* Mutant of pop: the maximum is returned and left in the heap
pop_leaves_item(S) ==
    [state |-> S, ret |-> map_inner(bh_peek(S.heap))]

\* Mutant of pop: a pop that finds the heap empty resets the counter
pop_resets_when_empty(S) ==
    LET r == bh_pop(S.heap)
    IN  [state |-> [heap |-> r.data, counter |-> IF r.ret.some THEN S.counter ELSE 0],
         ret |-> map_inner(r.ret)]

\* Mutant of pop: a pop that takes the last value resets the counter
pop_resets_when_emptied(S) ==
    LET r == bh_pop(S.heap)
    IN  [state |-> [heap |-> r.data, counter |-> IF r.data = <<>> THEN 0 ELSE S.counter],
         ret |-> map_inner(r.ret)]

\* StableBinaryHeap::pop: the heap afterwards and the Option returned
pop(S) ==
    LET r == bh_pop(S.heap)
    IN  [state |-> [heap |-> r.data, counter |-> S.counter], ret |-> map_inner(r.ret)]

\* Mutant of peek: the vector's last entry instead of its first
peek_last(S) ==
    map_inner(IF S.heap = <<>> THEN None ELSE Some(S.heap[Len(S.heap)]))

\* StableBinaryHeap::peek
peek(S) == map_inner(bh_peek(S.heap))

\* Mutant of peek_mut: the handle's release does not restore the heap order
peek_mut_no_sift(S, w) ==
    [heap |-> IF S.heap = <<>> THEN S.heap
              ELSE [S.heap EXCEPT ![1] = Write(S.heap[1], w)],
     counter |-> S.counter]

\* StableBinaryHeap::peek_mut, with the caller's use of the handle up to its
\* release
peek_mut(S, w) == [heap |-> bh_peek_mut(S.heap, w), counter |-> S.counter]

\* Mutant of extend: every value gets the counter the heap had at the start
RECURSIVE extend_one_counter(_, _)
extend_one_counter(S, iter) ==
    IF iter = <<>> THEN S
    ELSE extend_one_counter(
             [heap |-> bh_push(S.heap, new_item(S, Head(iter))), counter |-> S.counter],
             Tail(iter))

\* StableBinaryHeap::extend
RECURSIVE extend(_, _)
extend(S, iter) ==
    IF iter = <<>> THEN S ELSE extend(push(S, Head(iter)), Tail(iter))

\* The closures given to retain: Fn(&T) -> bool
Preds ==
    [kind : {"val_ne", "val_ge"}, k : Vals] \cup [kind : {"item_parity"}, k : {0, 1}]

Holds(f, x) ==
    IF f.kind = "val_ne" THEN x.val # f.k
    ELSE IF f.kind = "val_ge" THEN x.val >= f.k
    ELSE x.item % 2 = f.k

\* Iterator::filter(..).collect()
RECURSIVE filter(_, _)
filter(s, f) ==
    IF s = <<>> THEN <<>>
    ELSE IF Holds(f, into_inner(Head(s)))
         THEN <<Head(s)>> \o filter(Tail(s), f)
         ELSE filter(Tail(s), f)

\* the loop of retain: for i in tmp { self.push_raw(i) }
RECURSIVE push_raw_all(_, _)
push_raw_all(S, tmp) ==
    IF tmp = <<>> THEN S ELSE push_raw_all(push_raw(S, Head(tmp)), Tail(tmp))

\* Mutant of retain: the survivors are pushed again as new values
retain_by_push(S, f) ==
    LET tmp == filter(bh_drain(S.heap), f)
        drained == [heap |-> <<>>, counter |-> S.counter]
    IN  extend(drained, [i \in 1..Len(tmp) |-> into_inner(tmp[i])])

\* Mutant of retain: the heap is emptied with clear() before the survivors
\* are put back
retain_clears_first(S, f) ==
    LET tmp == filter(bh_drain(S.heap), f)
    IN  push_raw_all(clear(S), tmp)

\* StableBinaryHeap::retain
retain(S, f) ==
    LET tmp == filter(bh_drain(S.heap), f)
        drained == [heap |-> <<>>, counter |-> S.counter]
    IN  push_raw_all(drained, tmp)

\* StableBinaryHeap::into_vec
into_vec(S) ==
    LET v == bh_into_vec(S.heap)
    IN  [i \in 1..Len(v) |-> into_inner(v[i])]

\* Mutant of IntoIterSorted::next: the next value of the vector, not a pop
sorted_next_from_vector(inner) ==
    IF inner = <<>>
    THEN [inner |-> inner, ret |-> None]
    ELSE [inner |-> Tail(inner), ret |-> Some(into_inner(Head(inner)))]

\* IntoIterSorted::next: the iterator's heap afterwards and the Option returned
sorted_next(inner) ==
    LET r == bh_pop(inner)
    IN  [inner |-> r.data, ret |-> map_inner(r.ret)]

\* Iterator::collect over IntoIterSorted
RECURSIVE collect_sorted(_)
collect_sorted(inner) ==
    LET r == sorted_next(inner)
    IN  IF r.ret.some THEN <<r.ret.val>> \o collect_sorted(r.inner) ELSE <<>>

\* StableBinaryHeap::into_iter_sorted
into_iter_sorted(S) == S.heap

\* StableBinaryHeap::into_sorted_vec
into_sorted_vec(S) == collect_sorted(into_iter_sorted(S))

\* Drain::next over the wrapped BinaryHeap drain: the iterator afterwards and
\* the Option returned.  No method of StableBinaryHeap constructs a Drain.
drain_next(iter) ==
    IF iter = <<>>
    THEN [iter |-> iter, ret |-> None]
    ELSE [iter |-> Tail(iter), ret |-> Some(into_inner(Head(iter)))]

\* Mutant of into_iter: the values in pop order
into_iter_in_pop_order(S) == into_sorted_vec(S)

\* StableBinaryHeap::into_iter
into_iter(S) == into_vec(S)

----------------------------------------------------------------------------
\* The program: one heap, its callers' calls, and the comparator on its own.

\* The heap value held in the variables
Self == [heap |-> heap, counter |-> counter]

NoCall == [op |-> "new", arg |-> <<>>, ret |-> None, pre |-> new]

\* The ways to construct a heap, and what `last` holds after each
Constructors ==
    {[op |-> "new", arg |-> <<>>, S |-> new],
     [op |-> "default", arg |-> <<>>, S |-> default]}
    \cup {[op |-> "with_capacity", arg |-> <<n>>, S |-> with_capacity(n)] : n \in 0..MaxPushes}
Constructed(c) == [NoCall EXCEPT !.op = c.op, !.arg = c.arg, !.pre = c.S]
Call(op, arg, ret) == [op |-> op, arg |-> arg, ret |-> ret, pre |-> Self]

NoSorted == [live |-> FALSE, inner |-> <<>>]
NoOut == [by |-> "none", vals |-> <<>>]
NoTwin == [on |-> FALSE, heap |-> <<>>, counter |-> 0, agree |-> TRUE]
NoCmp == [some |-> FALSE]

\* The kind of call sequence a heap has had since its construction, by the
\* methods that take &mut self: none yet, one extend, pushes only, pushes and
\* pops only, or any other.
After(c, op) ==
    IF c = "none" /\ op = "extend" THEN "extend"
    ELSE IF c \in {"none", "pushes"} /\ op = "push" THEN "pushes"
    ELSE IF c \in {"none", "pushes", "pushes_pops"} /\ op \in {"push", "pop"} THEN "pushes_pops"
    ELSE "any"

\* The values a caller passes: the next label with any priority
Inputs(n) ==
    UNION {[1..k -> Vals] : k \in 0..n}

Labelled(s, from) == [i \in 1..Len(s) |-> UniqueItem(from + i - 1, s[i])]

\* The entries handed to the comparator
CmpEntries ==
    {HeapItem(UniqueItem(i, v), c) : i \in 0..1, v \in Vals, c \in 0..MaxCmpCounter}

CmpIdle == /\ cmpIn = NoCmp
           /\ cmpOut = NoCmp

HeapIdle == /\ \E c \in Constructors :
                  /\ heap = c.S.heap
                  /\ counter = c.S.counter
                  /\ last = Constructed(c)
            /\ alive = TRUE
            /\ sorted = NoSorted
            /\ out = NoOut
            /\ calls = "none"
            /\ nPush = 0
            /\ nPop = 0
            /\ twin = NoTwin

Init == HeapIdle /\ CmpIdle

Cmp == <<cmpIn, cmpOut>>
Moved == <<alive, sorted, out>>

\* let heap = StableBinaryHeap::new(), or with_capacity(n) or default(), once
\* the previous heap is gone
New ==
    /\ ~alive
    /\ \E c \in Constructors :
          /\ heap' = c.S.heap
          /\ counter' = c.S.counter
          /\ last' = Constructed(c)
    /\ alive' = TRUE
    /\ sorted' = NoSorted
    /\ out' = NoOut
    /\ calls' = "none"
    /\ nPush' = 0
    /\ nPop' = 0
    /\ twin' = NoTwin
    /\ UNCHANGED Cmp

\* heap.push(UniqueItem::new(nPush, v)), where the addition does not panic
DoPush(v) ==
    /\ alive
    /\ LET x == UniqueItem(nPush, v)
           S == push(Self, x)
           T == push([heap |-> twin.heap, counter |-> twin.counter], x)
       IN  /\ heap' = S.heap
           /\ counter' = S.counter
           /\ last' = Call("push", <<x>>, None)
           /\ twin' = IF twin.on
                      THEN [twin EXCEPT !.heap = T.heap, !.counter = T.counter]
                      ELSE twin
    /\ calls' = After(calls, "push")
    /\ nPush' = nPush + 1
    /\ UNCHANGED <<nPop, Moved, Cmp>>

\* A push by a caller that pushes at most MaxPushes values
Push(v) ==
    /\ nPush < MaxPushes
    /\ DoPush(v)

\* A push in a long run of pushes and pops that keeps the heap small; with
\* the counter at usize::MAX this is the build without overflow checks
PushInRun(v) ==
    /\ Len(heap) < 2
    /\ nPush < UsizeModulus + 2
    /\ DoPush(v)

\* The same push in a build with overflow checks, the counter at usize::MAX:
\* `self.counter += 1` panics before the entry is pushed, and unwinding takes
\* the heap
PushPanics(v) ==
    /\ alive
    /\ Len(heap) < 2
    /\ counter = UsizeMax
    /\ alive' = FALSE
    /\ last' = Call("push_panicked", <<UniqueItem(nPush, v)>>, None)
    /\ UNCHANGED <<heap, counter, sorted, out, calls, nPush, nPop, twin, Cmp>>

\* heap.extend(input)
Extend(s) ==
    /\ alive
    /\ nPush + Len(s) <= MaxPushes
    /\ LET input == Labelled(s, nPush)
           S == extend(Self, input)
       IN  /\ heap' = S.heap
           /\ counter' = S.counter
           /\ last' = Call("extend", input, None)
    /\ calls' = After(calls, "extend")
    /\ nPush' = nPush + Len(s)
    /\ twin' = NoTwin
    /\ UNCHANGED <<nPop, Moved, Cmp>>

\* heap.pop()
Pop ==
    /\ alive
    /\ LET r == pop(Self)
           t == pop([heap |-> twin.heap, counter |-> twin.counter])
       IN  /\ heap' = r.state.heap
           /\ counter' = r.state.counter
           /\ last' = Call("pop", <<>>, r.ret)
           /\ nPop' = IF r.ret.some THEN nPop + 1 ELSE nPop
           /\ twin' = IF twin.on
                      THEN [on |-> TRUE, heap |-> t.state.heap, counter |-> t.state.counter,
                            agree |-> twin.agree /\ t.ret = r.ret]
                      ELSE twin
    /\ calls' = After(calls, "pop")
    /\ UNCHANGED <<nPush, Moved, Cmp>>

\* heap.peek()
Peek ==
    /\ alive
    /\ last' = Call("peek", <<>>, peek(Self))
    /\ UNCHANGED <<heap, counter, calls, nPush, nPop, twin, Moved, Cmp>>

\* What callers do with the handle as a handle to the value
ValueWrites == {[kind |-> "read", k |-> 0]} \cup [kind : {"val"}, k : Vals]

\* What the handle's type also lets them do: write the entry's counter
CounterWrites == [kind : {"counter"}, k : 0..MaxPushes]

\* if let Some(mut top) = heap.peek_mut() { use of top as w }
PeekMut(w) ==
    /\ alive
    /\ LET S == peek_mut(Self, w)
       IN  /\ heap' = S.heap
           /\ counter' = S.counter
           /\ last' = Call("peek_mut", w, peek(Self))
    /\ calls' = After(calls, "peek_mut")
    /\ twin' = NoTwin
    /\ UNCHANGED <<nPush, nPop, Moved, Cmp>>

\* heap.retain(f)
Retain(f) ==
    /\ alive
    /\ LET S == retain(Self, f)
       IN  /\ heap' = S.heap
           /\ counter' = S.counter
           /\ last' = Call("retain", f, None)
    /\ calls' = After(calls, "retain")
    /\ twin' = NoTwin
    /\ UNCHANGED <<nPush, nPop, Moved, Cmp>>

\* heap.clear(); from here on a newly constructed heap gets the same calls
Clear ==
    /\ alive
    /\ LET S == clear(Self)
       IN  /\ heap' = S.heap
           /\ counter' = S.counter
           /\ last' = Call("clear", <<>>, None)
    /\ calls' = After(calls, "clear")
    /\ twin' = [on |-> TRUE, heap |-> new.heap, counter |-> new.counter, agree |-> TRUE]
    /\ UNCHANGED <<nPush, nPop, Moved, Cmp>>

\* The consuming methods take the heap by value: heap and counter keep what
\* was moved out, and no method can be called on it any more.
Consume(by, vals) ==
    /\ alive
    /\ alive' = FALSE
    /\ out' = [by |-> by, vals |-> vals]
    /\ UNCHANGED <<heap, counter, last, calls, nPush, nPop, twin, Cmp>>

\* heap.into_vec()
IntoVec ==
    /\ Consume("into_vec", into_vec(Self))
    /\ UNCHANGED sorted

\* heap.into_iter().collect()
IntoIter ==
    /\ Consume("into_iter", into_iter(Self))
    /\ UNCHANGED sorted

\* heap.into_sorted_vec()
IntoSortedVec ==
    /\ Consume("into_sorted_vec", into_sorted_vec(Self))
    /\ UNCHANGED sorted

\* let it = heap.into_iter_sorted()
IntoIterSorted ==
    /\ Consume("into_iter_sorted", <<>>)
    /\ sorted' = [live |-> TRUE, inner |-> into_iter_sorted(Self)]

\* it.next(), until it has returned None
SortedNext ==
    /\ sorted.live
    /\ LET r == sorted_next(sorted.inner)
       IN  /\ sorted' = [live |-> r.ret.some, inner |-> r.inner]
           /\ out' = IF r.ret.some
                     THEN [out EXCEPT !.vals = Append(@, r.ret.val)]
                     ELSE [out EXCEPT !.by = "into_iter_sorted_done"]
    /\ UNCHANGED <<heap, counter, alive, last, calls, nPush, nPop, twin, Cmp>>

HeapVars == <<heap, counter, alive, sorted, out, last, calls, nPush, nPop, twin>>

\* a.cmp(&b) for two entries
Compare(a, b) ==
    /\ cmpIn' = [some |-> TRUE, a |-> a, b |-> b]
    /\ cmpOut' = [some |-> TRUE, cmp |-> item_cmp(a, b),
                  partial |-> partial_cmp(a, b), eq |-> item_eq(a, b)]
    /\ UNCHANGED HeapVars

Next ==
    \/ New
    \/ \E v \in Vals : Push(v)
    \/ \E s \in Inputs(MaxExtend) : Extend(s)
    \/ Pop
    \/ Peek
    \/ \E w \in ValueWrites : PeekMut(w)
    \/ \E f \in Preds : Retain(f)
    \/ Clear
    \/ IntoVec
    \/ IntoIter
    \/ IntoSortedVec
    \/ IntoIterSorted
    \/ SortedNext

Spec == Init /\ [][Next]_vars

CmpNext == \E a \in CmpEntries, b \in CmpEntries : Compare(a, b)

\* Callers that also write the counter through the peek_mut handle
HandleNext ==
    \/ \E v \in Vals : Push(v)
    \/ Pop
    \/ Peek
    \/ \E w \in ValueWrites \cup CounterWrites : PeekMut(w)

SpecHandle == Init /\ [][HandleNext]_vars

\* A heap that is never cleared, in a run of pushes and pops long enough for
\* the counter to reach usize::MAX
RunNext ==
    \/ \E v \in Vals : PushInRun(v)
    \/ \E v \in Vals : PushPanics(v)
    \/ Pop

SpecRun == Init /\ [][RunNext]_vars

SpecCmp == Init /\ [][CmpNext]_vars

----------------------------------------------------------------------------
\* Properties.

\* The entries and the values a vector holds
Entries(data) == {data[i] : i \in 1..Len(data)}
Values(data) == {into_inner(data[i]) : i \in 1..Len(data)}
Range(s) == {s[i] : i \in 1..Len(s)}

\* The order in which repeated pops return a vector's values
PopOrder(data) == collect_sorted(data)

\* Among values that compare equal, the one pushed earlier comes first
Fifo(s) ==
    \A i, j \in 1..Len(s) :
        (i < j /\ user_cmp(s[i], s[j]) = Equal) => s[i].item < s[j].item

\* Non-increasing under the user order
Descending(s) ==
    \A i, j \in 1..Len(s) : i < j => user_cmp(s[i], s[j]) # Less

\* The values of s that satisfy f, in the order of s
RECURSIVE Satisfying(_, _)
Satisfying(s, f) ==
    IF s = <<>> THEN <<>>
    ELSE IF Holds(f, Head(s))
         THEN <<Head(s)>> \o Satisfying(Tail(s), f)
         ELSE Satisfying(Tail(s), f)

SortedOut == out.by \in {"into_sorted_vec", "into_iter_sorted", "into_iter_sorted_done"}
SortedDone == out.by \in {"into_sorted_vec", "into_iter_sorted_done"}

\* C1: after nothing but pushes into a new heap, sorted extraction yields
\* every pushed value, and of two values that compare equal the one pushed
\* earlier comes out first.
C1_Stability ==
    (calls = "pushes" /\ SortedOut) =>
        /\ Fifo(out.vals)
        /\ Range(out.vals) \subseteq Values(heap)
        /\ SortedDone => Len(out.vals) = nPush

\* C1 witness: three pushed values that compare equal, and one that does not,
\* have come out of into_sorted_vec.
C1_Witness ==
    /\ calls = "pushes"
    /\ out.by = "into_sorted_vec"
    /\ \E i, j, k, l \in 1..Len(out.vals) :
          /\ i < j /\ j < k
          /\ out.vals[i].val = out.vals[j].val
          /\ out.vals[j].val = out.vals[k].val
          /\ out.vals[l].val # out.vals[i].val

\* C2: one extend(input) on a new heap, then into_iter_sorted run to its end
\* (or into_sorted_vec), yields exactly the values of the input, each once,
\* in non-increasing order.
C2_ExtendSorted ==
    (calls = "extend" /\ last.op = "extend" /\ SortedDone) =>
        /\ Len(out.vals) = Len(last.arg)
        /\ Range(out.vals) = Range(last.arg)
        /\ Descending(out.vals)

\* C2 witness: an input of three values that is not in descending order has
\* come out of the sorted iterator.
C2_Witness ==
    /\ calls = "extend"
    /\ last.op = "extend"
    /\ out.by = "into_iter_sorted_done"
    /\ Len(last.arg) >= 3
    /\ user_cmp(last.arg[1], last.arg[2]) = Less
    /\ user_cmp(last.arg[2], last.arg[3]) = Equal

\* C3: a pop on a non-empty heap returns a value that no held value exceeds
\* and that was pushed before every held value equal to it, and the heap
\* then holds exactly the other entries.
C3_PopMaxEarliest ==
    (last.op = "pop" /\ last.pre.heap # <<>>) =>
        /\ last.ret.some
        /\ last.ret.val \in Values(last.pre.heap)
        /\ \A e \in Values(last.pre.heap) :
              /\ user_cmp(e, last.ret.val) # Greater
              /\ user_cmp(e, last.ret.val) = Equal => last.ret.val.item <= e.item
        /\ Len(heap) = Len(last.pre.heap) - 1
        /\ Entries(heap) = {e \in Entries(last.pre.heap) : e.inner # last.ret.val}

\* C3 witness: on a heap that was cleared and pushed to again, a pop has
\* chosen between held values that compare equal.
C3_Witness ==
    /\ last.op = "pop"
    /\ calls = "any"
    /\ counter < nPush
    /\ Len(last.pre.heap) >= 3
    /\ \E e \in Values(heap) : user_cmp(e, last.ret.val) = Equal

\* C4: while a new heap has had only pushes and pops, len() is the number of
\* pushes less the number of successful pops; is_empty() holds exactly when
\* len() is 0.
C4_Size ==
    /\ calls \in {"none", "pushes", "pushes_pops"} => len(Self) = nPush - nPop
    /\ is_empty(Self) <=> len(Self) = 0

\* C4 witness: pushes and pops interleaved, some values still held.
C4_Witness ==
    /\ calls = "pushes_pops"
    /\ last.op = "push"
    /\ nPop >= 2
    /\ len(Self) = 2

\* C5: retain(f) leaves exactly the entries whose value satisfies f, counters
\* unchanged, and the survivors are popped in the order in which they would
\* have been popped before the call.
C5_Retain ==
    last.op = "retain" =>
        /\ Entries(heap) = {e \in Entries(last.pre.heap) : Holds(last.arg, e.inner)}
        /\ Len(heap) = Cardinality(Entries(heap))
        /\ PopOrder(heap) = Satisfying(PopOrder(last.pre.heap), last.arg)

\* C5 witness: a retain has removed a value and kept two that compare equal.
C5_Witness ==
    /\ last.op = "retain"
    /\ Len(heap) < Len(last.pre.heap)
    /\ \E a, b \in Values(heap) : a # b /\ user_cmp(a, b) = Equal

\* C6: clear() leaves the heap empty with counter 0, and from then on pushes
\* and pops return what they return on a newly constructed heap given the
\* same calls, and leave the same heap.
C6_ClearResets ==
    /\ last.op = "clear" => (heap = <<>> /\ counter = 0 /\ is_empty(Self))
    /\ twin.on =>
          /\ twin.agree
          /\ twin.heap = heap
          /\ twin.counter = counter

\* C6 witness: a heap that held values was cleared, then pushed to and
\* popped from, and still holds two values.
C6_Witness ==
    /\ twin.on
    /\ last.op = "pop"
    /\ last.ret.some
    /\ Len(heap) >= 2
    /\ nPush > counter

\* C7: pop() and peek() on an empty heap return None and leave the heap
\* empty and the counter as it was.
C7_EmptyIsNone ==
    (last.op \in {"pop", "peek"} /\ last.pre.heap = <<>>) =>
        /\ last.ret = None
        /\ heap = <<>>
        /\ counter = last.pre.counter

\* C7 witness: a pop on a heap that has become empty after pushes.
C7_Witness ==
    /\ last.op = "pop"
    /\ last.pre.heap = <<>>
    /\ last.pre.counter >= 2

\* C8 as stated: into_iter yields the values in the order in which repeated
\* pops would return them.
C8_IntoIterPopOrder ==
    out.by = "into_iter" => out.vals = PopOrder(heap)

\* C8 amended: into_iter yields every held value exactly once, in the order
\* of the heap's vector (that of into_vec); only the first value is sure to
\* be the one pop would return.
C8_IntoIterVectorOrder ==
    out.by = "into_iter" =>
        /\ Len(out.vals) = Len(heap)
        /\ \A i \in 1..Len(heap) : out.vals[i] = heap[i].inner
        /\ Range(out.vals) = Range(PopOrder(heap))
        /\ heap # <<>> => out.vals[1] = PopOrder(heap)[1]

\* C8 witness: into_iter has yielded three or more values in an order that
\* is not the pop order, and not even non-increasing.
C8_Witness ==
    /\ out.by = "into_iter"
    /\ Len(out.vals) >= 3
    /\ out.vals # PopOrder(heap)
    /\ ~Descending(out.vals)

\* Pushing the values of s one after the other, last value last
RECURSIVE PushEach(_, _)
PushEach(S, s) ==
    IF s = <<>> THEN S
    ELSE push(PushEach(S, SubSeq(s, 1, Len(s) - 1)), s[Len(s)])

\* C9: extend(input) leaves what a push of each value in the input's order
\* leaves: the i-th value gets the counter the heap had plus i - 1, the
\* counter grows by the input's length, and values of the input that compare
\* equal are popped in input order.
C9_ExtendIsPushes ==
    last.op = "extend" =>
        /\ counter = last.pre.counter + Len(last.arg)
        /\ Entries(heap) = Entries(last.pre.heap) \cup
              {HeapItem(last.arg[i], last.pre.counter + i - 1) : i \in 1..Len(last.arg)}
        /\ heap = PushEach(last.pre, last.arg).heap
        /\ \A i, j \in 1..Len(last.arg) :
              (i < j /\ user_cmp(last.arg[i], last.arg[j]) = Equal) =>
                  \E m, n \in 1..Len(heap) :
                      /\ m < n
                      /\ PopOrder(heap)[m] = last.arg[i]
                      /\ PopOrder(heap)[n] = last.arg[j]

\* C9 witness: an extend of a heap that held values, by an input in which
\* two values compare equal.
C9_Witness ==
    /\ last.op = "extend"
    /\ last.pre.heap # <<>>
    /\ Len(last.arg) >= 2
    /\ user_cmp(last.arg[1], last.arg[2]) = Equal

\* C10: for entries a and b whose values compare unequal, a.cmp(b) is the
\* comparison of the values; for values that compare equal it is the
\* comparison of b's counter with a's, so the smaller counter is the greater
\* entry.
C10_Comparator ==
    cmpOut.some =>
        LET a == cmpIn.a
            b == cmpIn.b
        IN  /\ cmpOut.partial = cmpOut.cmp
            /\ a.inner.val < b.inner.val => cmpOut.cmp = Less
            /\ a.inner.val > b.inner.val => cmpOut.cmp = Greater
            /\ a.inner.val = b.inner.val =>
                  /\ a.counter < b.counter => cmpOut.cmp = Greater
                  /\ a.counter > b.counter => cmpOut.cmp = Less
                  /\ a.counter = b.counter => cmpOut.cmp = Equal

\* C10 witness: two entries with different payloads whose values compare
\* equal, the first with the smaller counter, compared Greater.
C10_Witness ==
    /\ cmpOut.some
    /\ cmpIn.a.inner # cmpIn.b.inner
    /\ cmpIn.a.inner.val = cmpIn.b.inner.val
    /\ cmpIn.a.counter < cmpIn.b.counter
    /\ cmpOut.cmp = Greater


\* C11: the entry comparator is a total order over the entries: comparing
\* b with a gives the reverse of comparing a with b, a >= b >= c gives
\* a >= c, and two entries whose values compare equal compare Equal only
\* when their counters are equal (and then HeapItem::eq agrees).
C11_TotalOrder ==
    cmpOut.some =>
        LET a == cmpIn.a
            b == cmpIn.b
        IN  /\ cmpOut.cmp \in {Less, Equal, Greater}
            /\ item_cmp(b, a) = reverse(cmpOut.cmp)
            /\ \A c \in CmpEntries :
                  (cmpOut.cmp # Less /\ item_cmp(b, c) # Less) =>
                      /\ item_cmp(a, c) # Less
                      /\ (cmpOut.cmp = Greater \/ item_cmp(b, c) = Greater) =>
                            item_cmp(a, c) = Greater
            /\ user_cmp(a.inner, b.inner) = Equal =>
                  (cmpOut.cmp = Equal <=> a.counter = b.counter)
            /\ cmpOut.cmp = Equal <=> cmpOut.eq

\* C11 witness: two entries with different payloads whose values compare
\* equal and whose counters differ have been compared.
C11_Witness ==
    /\ cmpOut.some
    /\ cmpIn.a.inner # cmpIn.b.inner
    /\ user_cmp(cmpIn.a.inner, cmpIn.b.inner) = Equal
    /\ cmpIn.a.counter > cmpIn.b.counter
    /\ cmpOut.cmp = Less


\* C12: peek() on a non-empty heap returns the value the next pop() would
\* return, a maximal value and the earliest pushed of those equal to it, and
\* leaves the entries and the counter as they were.
C12_PeekIsNextPop ==
    (last.op = "peek" /\ last.pre.heap # <<>>) =>
        /\ last.ret.some
        /\ last.ret = pop(Self).ret
        /\ \A e \in Values(heap) :
              /\ user_cmp(e, last.ret.val) # Greater
              /\ user_cmp(e, last.ret.val) = Equal => last.ret.val.item <= e.item
        /\ heap = last.pre.heap
        /\ counter = last.pre.counter

\* C12 witness: a peek at a heap of three or more values in which another
\* value compares equal to the one returned.
C12_Witness ==
    /\ last.op = "peek"
    /\ Len(heap) >= 3
    /\ \E e \in Values(heap) : e # last.ret.val /\ user_cmp(e, last.ret.val) = Equal

\* The heap order of a vector: no entry is greater than its parent
IsHeap(data) ==
    \A p \in 1..(Len(data) - 1) : item_le(data[p + 1], data[((p - 1) \div 2) + 1])

\* C13: after the top value was changed through the peek_mut handle and the
\* handle released, the vector is in heap order again, it holds the changed
\* entry and every other entry exactly once, and pops return all values in
\* non-increasing order.
C13_PeekMutRestores ==
    (last.op = "peek_mut" /\ last.arg.kind = "val" /\ last.pre.heap # <<>>) =>
        LET top == last.pre.heap[1]
        IN  /\ IsHeap(heap)
            /\ Len(heap) = Len(last.pre.heap)
            /\ Cardinality(Entries(heap)) = Len(heap)
            /\ Entries(heap) =
                  (Entries(last.pre.heap) \ {top}) \cup {Write(top, last.arg)}
            /\ Descending(PopOrder(heap))
            /\ Len(PopOrder(heap)) = Len(heap)
            /\ Range(PopOrder(heap)) = Values(heap)

\* C13 witness: the top value of a heap of three or more was made smaller
\* than another held value, and is no longer on top.
C13_Witness ==
    /\ last.op = "peek_mut"
    /\ last.arg.kind = "val"
    /\ Len(heap) >= 3
    /\ last.arg.k < last.pre.heap[1].inner.val
    /\ heap[1].inner.item # last.pre.heap[1].inner.item

\* C15: push(value) wraps the value with the counter as it was before the
\* call, adds that one entry to the entries held, which keep their values and
\* counters, and increases the counter by 1 and len() by 1.
C15_PushFrame ==
    last.op = "push" =>
        /\ counter = last.pre.counter + 1
        /\ len(Self) = Len(last.pre.heap) + 1
        /\ Cardinality(Entries(heap)) = len(Self)
        /\ Entries(heap) =
              Entries(last.pre.heap) \cup {HeapItem(last.arg[1], last.pre.counter)}

\* C15 witness: a push into a heap that holds fewer entries than it has
\* been given.
C15_Witness ==
    /\ last.op = "push"
    /\ Len(last.pre.heap) >= 2
    /\ last.pre.counter > Len(last.pre.heap)

\* C16: the counter is 0 after new(), with_capacity() and default(); no call
\* but clear() lowers it, pop(), peek() and retain() leave it as it was, and
\* clear() sets it to 0 in the step that empties the heap.
C16_CounterMonotone ==
    /\ last.op \in {"new", "with_capacity", "default"} => counter = 0
    /\ counter < last.pre.counter => last.op = "clear"
    /\ last.op \in {"pop", "peek", "retain", "peek_mut"} => counter = last.pre.counter
    /\ last.op = "clear" => (counter = 0 /\ heap = <<>>)

\* C16 witness: a pop has taken the last value of a heap whose counter is 2
\* or more.
C16_Witness ==
    /\ last.op = "pop"
    /\ last.pre.heap # <<>>
    /\ heap = <<>>
    /\ counter >= 2

\* C17: the counters of the entries held are pairwise distinct and each is
\* smaller than the heap's counter.
C17_CountersDistinct ==
    /\ \A i, j \in 1..Len(heap) : i # j => heap[i].counter # heap[j].counter
    /\ \A i, j \in 1..Len(heap) : i # j => item_cmp(heap[i], heap[j]) # Equal
    /\ \A i \in 1..Len(heap) : heap[i].counter < counter

\* C17 witness: a heap of two or more entries after a clear, later pushes
\* and a retain that removed an entry.
C17_Witness ==
    /\ last.op = "retain"
    /\ Len(heap) >= 2
    /\ Len(heap) < Len(last.pre.heap)
    /\ counter < nPush

\* C18: push_raw never lowers the counter and leaves it at least the entry's;
\* retain leaves the counter as it was, and a value pushed next that compares
\* equal to a survivor is popped after it.
C18_RetainKeepsCounter ==
    last.op = "retain" =>
        /\ counter = last.pre.counter
        /\ \A e \in Entries(last.pre.heap) :
              LET r == push_raw([heap |-> <<>>, counter |-> last.pre.counter], e)
              IN  r.counter >= last.pre.counter /\ r.counter >= e.counter
        /\ \A e \in Entries(heap) : e.counter <= counter
        /\ \A v \in Vals :
              LET x == UniqueItem(nPush, v)
                  order == PopOrder(push(Self, x).heap)
              IN  \A m, n \in 1..Len(order) :
                      (order[m] = x /\ user_cmp(order[n], x) = Equal /\ n # m) => n < m

\* C18 witness: a retain that removed an entry and kept one.
C18_Witness ==
    /\ last.op = "retain"
    /\ heap # <<>>
    /\ Len(heap) < Len(last.pre.heap)
    /\ counter >= 2

\* C18 witness of the other case: a retain that removed every entry.
C18_WitnessAllRemoved ==
    /\ last.op = "retain"
    /\ heap = <<>>
    /\ last.pre.heap # <<>>
    /\ counter >= 2


\* A step that drains: it hands out every held value exactly once and leaves
\* the heap empty and in the caller's hands.
Drains ==
    /\ alive'
    /\ heap' = <<>>
    /\ Len(out'.vals) = Len(heap)
    /\ Range(out'.vals) = Values(heap)

\* C14: the heap offers a drain operation: whenever it holds values, a call
\* exists that yields each of them once and leaves the heap empty.
C14_DrainOffered ==
    (alive /\ heap # <<>>) => ENABLED (Next /\ Drains)


\* C19: whatever the caller does with the peek_mut handle, every entry keeps
\* its counter, the heap's counter is unchanged, and the counters held stay
\* pairwise distinct.
C19_HandleKeepsCounters ==
    last.op = "peek_mut" =>
        /\ counter = last.pre.counter
        /\ \A e \in Entries(last.pre.heap) :
              \E d \in Entries(heap) :
                  d.inner.item = e.inner.item /\ d.counter = e.counter
        /\ \A i, j \in 1..Len(heap) : i # j => heap[i].counter # heap[j].counter

\* C20: in a heap that is never cleared the counter only grows, it stays
\* above the counter of every entry held, and values that compare equal are
\* popped in push order.
C20_NoWrapAround ==
    /\ last.op = "push" => counter > last.pre.counter
    /\ \A e \in Entries(heap) : e.counter < counter
    /\ Fifo(PopOrder(heap))

\* C20, its conclusion alone: values that compare equal are popped in push
\* order.
C20_FifoKept == Fifo(PopOrder(heap))

====
